---- MODULE Spec2Model ----
(***************************************************************************)
(* A model of the Steam scraper (scraper.py): the catalog store            *)
(* (DatabaseManager), the source client (SteamAPI) and the crawl loop      *)
(* (SteamScraperApplication.run).                                          *)
(*                                                                         *)
(* The store is modelled as two copies of the tables: db, what the open    *)
(* connection sees (committed rows plus the statements of the open         *)
(* transaction), and committed, what is durable.  connection.commit()      *)
(* copies db to committed; a process that ends without commit loses the    *)
(* difference.                                                             *)
(***************************************************************************)
EXTENDS Integers, Sequences, FiniteSets, TLC

\* Bounds of the model.
MaxId == 2          \* app ids are 1..MaxId
MaxUniverse == 2    \* longest app list the remote source returns
MaxRuns == 2        \* process starts explored
MaxResolves == 3    \* calls of resolve_pending_dlc_links on the open store
MaxLookupCalls == 4 \* calls of _get_or_create_id on the open store

AppIds == 1..MaxId
NoId == 0           \* Python None / SQL NULL for an id column

\* get_all_app_ids keeps ids as strings: str(data['appid']).
str(n) == ToString(n)
AppIdStrs == {str(n) : n \in AppIds}

\* int(appid): the inverse conversion, used by the filter and by the loop.
int(s) == CHOOSE n \in AppIds : str(n) = s

RECURSIVE SeqsUpTo(_, _)
SeqsUpTo(S, n) ==
    IF n = 0 THEN {<<>>}
    ELSE LET shorter == SeqsUpTo(S, n - 1)
         IN shorter \cup {Append(q, x) : q \in {t \in shorter : Len(t) = n - 1}, x \in S}

\* Every app list the remote source may answer with (duplicates included).
Universes == SeqsUpTo(AppIdStrs, MaxUniverse)

Range(q) == {q[k] : k \in 1..Len(q)}

(***************************************************************************)
(* The store's tables.                                                     *)
(***************************************************************************)
EmptyDb ==
    [apps |-> {}, lookup |-> {}, links |-> {}, pending_dlc |-> {},
     scrape_status |-> {}, achievements |-> {}, reviews |-> {}, app_reviews |-> {}]

AppRowIds(d) == {r.id : r \in d.apps}

\* scrape_status.all_prcoessed
get_all_processed_app_ids(d) == {r.appid : r \in d.scrape_status}

\* Mutant: the ledger check never finds a row.
is_processed_never(d, appid) == FALSE

\* scrape_status.is_processed
is_processed(d, appid) == \E r \in d.scrape_status : r.appid = appid

get_processed_count(d) == Cardinality(d.scrape_status)

\* scrape_status.mark_processed: one current status per id, last write wins.
mark_processed_sql(rows, appid, status) ==
    {r \in rows : r.appid # appid} \cup {[appid |-> appid, status |-> status]}

mark_as_processed(d, appid, status) ==
    [d EXCEPT !.scrape_status = mark_processed_sql(@, appid, status)]

(***************************************************************************)
(* Lookup tables and junction tables (_get_or_create_id, the link inserts). *)
(***************************************************************************)
TableRows(lookup, table) == {r \in lookup : r.table = table}

\* AUTO_INCREMENT of one lookup table.
NextLookupId(lookup, table) ==
    LET used == {r.id : r \in TableRows(lookup, table)}
    IN IF used = {} THEN 1 ELSE 1 + CHOOSE m \in used : \A x \in used : x <= m

\* lookup_tables.insert_ignore: the name is the unique key.
lookup_insert_ignore(lookup, table, name) ==
    IF \E r \in lookup : r.table = table /\ r.name = name
    THEN lookup
    ELSE lookup \cup {[table |-> table, name |-> name, id |-> NextLookupId(lookup, table)]}

\* lookup_tables.select_id followed by "result['id'] if result else -1".
lookup_select_id(lookup, table, name) ==
    LET hit == {r \in lookup : r.table = table /\ r.name = name}
    IN IF hit = {} THEN -1 ELSE (CHOOSE r \in hit : TRUE).id

\* Mutant: the id is selected before the insert.
get_or_create_id_select_first(lookup, table, name) ==
    [lookup |-> lookup_insert_ignore(lookup, table, name),
     id |-> lookup_select_id(lookup, table, name)]

\* _get_or_create_id: the insert, then the select; the table after the call
\* and the id returned.
get_or_create_id(lookup, table, name) ==
    LET inserted == lookup_insert_ignore(lookup, table, name)
    IN [lookup |-> inserted, id |-> lookup_select_id(inserted, table, name)]

\* junction_tables.insert_ignore / insert_language / insert_tag: the pair
\* (app id, lookup id) is the key of a link row; a second insert is ignored.
junction_insert_ignore(links, table, app_id, item_id, attr) ==
    IF \E r \in links : r.table = table /\ r.app_id = app_id /\ r.item_id = item_id
    THEN links
    ELSE links \cup {[table |-> table, app_id |-> app_id, item_id |-> item_id, attr |-> attr]}

\* apps.insert_update: upsert by id.  main_tuple carries no base_game_id, so
\* the parent column is NULL on insert and untouched on update.
apps_insert_update(apps, main_tuple) ==
    IF \E r \in apps : r.id = main_tuple.id
    THEN {IF r.id = main_tuple.id THEN [r EXCEPT !.type = main_tuple.type] ELSE r : r \in apps}
    ELSE apps \cup {[id |-> main_tuple.id, type |-> main_tuple.type, base_game_id |-> NoId]}

\* The (table, name, attribute) triples add_app_and_relations walks, in the
\* order of its loops: developers, publishers, categories, genres, then
\* languages (attribute: is_audio), then tags (attribute: the tag's value).
PlainRelations(table, names) ==
    [k \in 1..Len(names) |-> [table |-> table, name |-> names[k], attr |-> "none"]]

\* Line 305 looks full_audio_languages up in main_dict, with [] as default.
LanguageRelations(parsed_data) ==
    LET full_audio == IF "full_audio_languages" \in DOMAIN parsed_data.main_dict
                      THEN parsed_data.main_dict.full_audio_languages ELSE <<>>
    IN [k \in 1..Len(parsed_data.supported_languages) |->
          [table |-> "languages", name |-> parsed_data.supported_languages[k],
           attr |-> IF parsed_data.supported_languages[k] \in Range(full_audio)
                    THEN "audio" ELSE "no_audio"]]

TagRelations(parsed_data) ==
    [k \in 1..Len(parsed_data.tags) |->
        [table |-> "tags", name |-> parsed_data.tags[k].name, attr |-> parsed_data.tags[k].value]]

RelationsOf(parsed_data) ==
    PlainRelations("developers", parsed_data.developers)
    \o PlainRelations("publishers", parsed_data.publishers)
    \o PlainRelations("categories", parsed_data.categories)
    \o PlainRelations("genres", parsed_data.genres)
    \o LanguageRelations(parsed_data)
    \o TagRelations(parsed_data)

\* The statements add_app_and_relations executes, in order: the app upsert,
\* then per relation the lookup insert (_get_or_create_id) and the link insert.
RECURSIVE RelationStatements(_)
RelationStatements(rels) ==
    IF rels = <<>> THEN <<>>
    ELSE << [op |-> "lookup", rel |-> Head(rels)], [op |-> "link", rel |-> Head(rels)] >>
         \o RelationStatements(Tail(rels))

StatementsOf(parsed_data) ==
    << [op |-> "app", rel |-> [table |-> "apps", name |-> "", attr |-> "none"]] >>
    \o RelationStatements(RelationsOf(parsed_data))

\* Mutant: every sighting of a name creates a lookup row.
ExecuteAlwaysCreate(d, parsed_data, stmt) ==
    CASE stmt.op = "app" ->
            [d EXCEPT !.apps = apps_insert_update(@, parsed_data.main_tuple)]
      [] stmt.op = "lookup" ->
            [d EXCEPT !.lookup = @ \cup {[table |-> stmt.rel.table, name |-> stmt.rel.name,
                                          id |-> NextLookupId(@, stmt.rel.table)]}]
      [] stmt.op = "link" ->
            LET item_id == NextLookupId(d.lookup, stmt.rel.table) - 1
            IN [d EXCEPT !.links = junction_insert_ignore(@, stmt.rel.table,
                                       parsed_data.main_tuple.id, item_id, stmt.rel.attr)]

\* One cursor.execute of add_app_and_relations.
Execute(d, parsed_data, stmt) ==
    CASE stmt.op = "app" ->
            [d EXCEPT !.apps = apps_insert_update(@, parsed_data.main_tuple)]
      [] stmt.op = "lookup" ->
            [d EXCEPT !.lookup = lookup_insert_ignore(@, stmt.rel.table, stmt.rel.name)]
      [] stmt.op = "link" ->
            LET item_id == lookup_select_id(d.lookup, stmt.rel.table, stmt.rel.name)
            IN IF item_id # -1
               THEN [d EXCEPT !.links = junction_insert_ignore(@, stmt.rel.table,
                                           parsed_data.main_tuple.id, item_id, stmt.rel.attr)]
               ELSE d

RECURSIVE ExecuteFirst(_, _, _, _)
ExecuteFirst(d, parsed_data, stmts, k) ==
    IF k = 0 \/ stmts = <<>> THEN d
    ELSE ExecuteFirst(Execute(d, parsed_data, Head(stmts)), parsed_data, Tail(stmts), k - 1)

\* Mutant: the app row without its lookup and link rows.
add_app_only(d, parsed_data) ==
    ExecuteFirst(d, parsed_data, StatementsOf(parsed_data), 1)

\* add_app_and_relations run to its end.
add_app_and_relations(d, parsed_data) ==
    ExecuteFirst(d, parsed_data, StatementsOf(parsed_data), Len(StatementsOf(parsed_data)))

\* add_app_and_relations when its statement number k + 1 raises: the first k
\* statements stay in the open transaction (no rollback anywhere in the code).
add_app_and_relations_failing(d, parsed_data, k) ==
    ExecuteFirst(d, parsed_data, StatementsOf(parsed_data), k)

(***************************************************************************)
(* Deferred parent links.                                                  *)
(***************************************************************************)
\* junction_tables.add_pending_dlc: the pair is the key.
add_pending_dlc_link(d, dlc_id, base_game_id) ==
    [d EXCEPT !.pending_dlc = @ \cup {[dlc_id |-> dlc_id, base_game_id |-> base_game_id]}]

\* The deferred rows whose addon row and parent row both exist.
Resolvable(d) ==
    {p \in d.pending_dlc : p.dlc_id \in AppRowIds(d) /\ p.base_game_id \in AppRowIds(d)}

\* utility_queries.resolve_dlc_links: sets the parent reference of every addon
\* with a resolvable row; pick says which row wins when an addon has several.
resolve_dlc_links_sql(d, pick) ==
    [d EXCEPT !.apps = {IF r.id \in DOMAIN pick
                        THEN [r EXCEPT !.base_game_id = pick[r.id]] ELSE r : r \in d.apps}]

\* The choices the UPDATE may make.
ResolvePicks(d) ==
    LET addons == {p.dlc_id : p \in Resolvable(d)}
    IN {f \in [addons -> AppIds] :
          \A a \in addons : [dlc_id |-> a, base_game_id |-> f[a]] \in Resolvable(d)}

\* utility_queries.clear_resolved_dlc_links: removes a deferred row when its
\* parent row exists and the addon's parent reference has been set.
clear_resolved_dlc_links_sql(d) ==
    [d EXCEPT !.pending_dlc =
        {p \in @ : ~ (/\ p.base_game_id \in AppRowIds(d)
                      /\ \E r \in d.apps : r.id = p.dlc_id /\ r.base_game_id # NoId)}]

(***************************************************************************)
(* Achievements and reviews.                                               *)
(***************************************************************************)
\* achievements.insert_update: (app_id, api_name) is the key.
add_achievements(d, achievements) ==
    IF achievements = <<>> THEN d
    ELSE [d EXCEPT !.achievements = @ \cup Range(achievements)]

\* add_reviews when its second executemany raises: the review rows are in
\* the transaction, the app-review links are not.
add_reviews_failing(d, reviews, app_id) ==
    IF reviews = <<>> THEN d
    ELSE [d EXCEPT !.reviews = @ \cup {r.recommendationid : r \in Range(reviews)}]

\* add_reviews: the review rows, then the app-review links.
add_reviews(d, reviews, app_id) ==
    IF reviews = <<>> THEN d
    ELSE LET d1 == add_reviews_failing(d, reviews, app_id)
         IN [d1 EXCEPT !.app_reviews = @ \cup
                {[app_id |-> app_id, recommendationid |-> r.recommendationid] : r \in Range(reviews)}]

(***************************************************************************)
(* What the remote sources answer (SteamAPI).  Each call answers with one  *)
(* element of a small set; a call that raises is the action Raise.         *)
(***************************************************************************)
AppTypes == {"game", "dlc", "video"}

\* Mutant: no type is filtered out.
EveryTypeSupported == AppTypes

\* Line 435: ['game', 'dlc'].
SupportedTypes == {"game", "dlc"}

\* get_app_details returning None: a soft failure, an empty body or
\* success = false.
NoDetails ==
    [present |-> FALSE, steam_appid |-> NoId, type |-> "none", fullgame |-> NoId,
     achievements_total |-> 0, developers |-> <<>>, supported_languages |-> <<>>]

\* The payloads of app appid: the source answers about the app it was asked
\* for (steam_appid = appid).  A game carries a developer and a language, a
\* dlc possibly its full game (another app).
DetailPayloads(appid) ==
    {[present |-> TRUE, steam_appid |-> appid, type |-> "video", fullgame |-> NoId,
      achievements_total |-> 0, developers |-> <<>>, supported_languages |-> <<>>]}
    \cup
    {[present |-> TRUE, steam_appid |-> appid, type |-> "dlc", fullgame |-> f,
      achievements_total |-> 0, developers |-> <<>>, supported_languages |-> <<>>]
        : f \in {NoId} \cup (AppIds \ {appid})}
    \cup
    {[present |-> TRUE, steam_appid |-> appid, type |-> "game", fullgame |-> NoId,
      achievements_total |-> n, developers |-> <<"Valve">>,
      supported_languages |-> << [name |-> "English", star |-> TRUE] >>]
        : n \in {0, 1}}

\* get_app_details(appid)
get_app_details(appid_str) == {NoDetails} \cup DetailPayloads(int(appid_str))

\* get_steamspy_details: None when the answer is empty or names no developer.
NoSpy == [present |-> FALSE, tags |-> <<>>]
get_steamspy_details(appid_str) ==
    {NoSpy, [present |-> TRUE, tags |-> << [name |-> "Indie", value |-> 10] >>]}

\* get_achievements: [] or the schema's achievements of the app.
get_achievements(appid_str) ==
    {<<>>, << [app_id |-> int(appid_str), api_name |-> "ACH_1"] >>}

\* get_reviews: [] or the reviews of the app (recommendationid is global).
get_reviews(appid_str) ==
    {<<>>, << [recommendationid |-> int(appid_str)] >>}

(***************************************************************************)
(* _parse_app_data: the fields the loop and the store read.                *)
(***************************************************************************)
NoParsed ==
    [main_tuple |-> [id |-> NoId, type |-> "none"],
     main_dict |-> [achievements_count |-> 0],
     base_game_id |-> NoId, developers |-> <<>>, publishers |-> <<>>,
     categories |-> <<>>, genres |-> <<>>, supported_languages |-> <<>>,
     full_audio_languages |-> <<>>, tags |-> <<>>]

RECURSIVE FullAudio(_)
FullAudio(langs) ==
    IF langs = <<>> THEN <<>>
    ELSE (IF Head(langs).star THEN <<Head(langs).name>> ELSE <<>>) \o FullAudio(Tail(langs))

parse_app_data(details, spy_details) ==
    [main_tuple |-> [id |-> details.steam_appid, type |-> details.type],
     main_dict |-> [achievements_count |->
                       IF details.type = "game" THEN details.achievements_total ELSE 0],
     base_game_id |-> details.fullgame,
     developers |-> details.developers, publishers |-> <<>>,
     categories |-> <<>>, genres |-> <<>>,
     supported_languages |-> [k \in 1..Len(details.supported_languages) |->
                                 details.supported_languages[k].name],
     full_audio_languages |-> FullAudio(details.supported_languages),
     tags |-> IF spy_details.present THEN spy_details.tags ELSE <<>>]

(***************************************************************************)
(* The process: __main__, SteamScraperApplication.run.                     *)
(***************************************************************************)
VARIABLES
    db,                 \* the tables as the open connection sees them
    committed,          \* the durable tables
    cache_file,         \* applist.json: [exists, ids]
    pc,                 \* where the process is
    pre_filter,         \* args.pre_filter
    use_steamspy,       \* CONFIG['scraper_settings']['use_steamspy']
    app_ids,            \* run(): the remaining list, shuffled
    i,                  \* run(): position in app_ids (1-based)
    processed_id_set,   \* run(): the ledger's ids read at start
    total_apps,         \* run(): len(app_ids) after the filter
    app_details,        \* run(): the current item's payload
    parsed_data,        \* run(): the current item's parsed record
    fetched,            \* history: the requests issued in this run
    item_log,           \* history: the events of the current item
    obtained,           \* history: per app, what this run's requests returned
    resolve_calls,      \* history: calls of resolve_pending_dlc_links in this run
    closed,             \* history: db.close() has run in this run
    shutdown,           \* history: why the loop was left
    ledger_at_start,    \* history: ids with a committed status when run() started
    runs,               \* history: process starts so far
    drop_tables,        \* args.drop_tables
    confirm,            \* __main__: what input() returned
    dropped,            \* _drop_all_tables has run in this process
    text,               \* sanitize_text: its argument, as a list of characters
    price_text,         \* price_to_float: its argument, as a list of characters
    returned            \* what the static method returned

vars == <<db, committed, cache_file, pc, pre_filter, use_steamspy, app_ids, i,
          processed_id_set, total_apps, app_details, parsed_data, fetched, item_log,
          obtained, resolve_calls, closed, shutdown, ledger_at_start, runs,
          drop_tables, confirm, dropped, text, price_text, returned>>

mainVars == <<drop_tables, confirm, dropped>>
callVars == <<text, price_text, returned>>
runVars == <<app_ids, i, processed_id_set, total_apps>>
itemVars == <<app_details, parsed_data>>
histVars == <<resolve_calls, closed, shutdown, ledger_at_start, runs, mainVars, callVars>>
cfgVars == <<cache_file, pre_filter, use_steamspy>>

NoCache == [exists |-> FALSE, ids |-> <<>>]

\* No prompt has been answered.
NoAnswer == "none"

NothingObtained ==
    [a \in AppIds |-> [parsed |-> NoParsed, achievements |-> <<>>, reviews |-> <<>>]]

Fresh ==
    /\ db = EmptyDb
    /\ committed = EmptyDb
    /\ cache_file = NoCache
    /\ pre_filter \in BOOLEAN
    /\ use_steamspy \in BOOLEAN
    /\ drop_tables \in BOOLEAN
    /\ confirm = NoAnswer
    /\ dropped = FALSE
    /\ app_ids = <<>>
    /\ i = 1
    /\ processed_id_set = {}
    /\ total_apps = 0
    /\ app_details = NoDetails
    /\ parsed_data = NoParsed
    /\ fetched = {}
    /\ item_log = <<>>
    /\ obtained = NothingObtained
    /\ resolve_calls = 0
    /\ closed = FALSE
    /\ shutdown = "none"
    /\ ledger_at_start = {}
    /\ runs = 0

\* No static method has been called.
NotReturned == <<"not returned">>
NoCall ==
    /\ text = <<>>
    /\ price_text = <<>>
    /\ returned = NotReturned

\* Before __main__ has started the scraper, the command line being without
\* --drop-tables.
Init ==
    /\ Fresh
    /\ NoCall
    /\ pc = "idle"
    /\ ~ drop_tables

\* connection.commit()
commit == committed' = db

\* line 414: the current item, as the string of the list and as the int.
appid_str == app_ids[i]
appid == int(appid_str)

Obtain(field, value) == obtained' = [obtained EXCEPT ![appid][field] = value]
Fetch(kind) == fetched' = fetched \cup {[kind |-> kind, appid |-> appid]}
Log(events) == item_log' = item_log \o events
Continue == i' = i + 1 /\ pc' = "loop"

\* Mutant: a failed connect is logged and the program goes on.
StartProcessGoesOn ==
    /\ runs' = runs + 1
    /\ db' = committed
    /\ app_ids' = <<>> /\ i' = 1 /\ processed_id_set' = {} /\ total_apps' = 0
    /\ app_details' = NoDetails /\ parsed_data' = NoParsed
    /\ fetched' = {} /\ item_log' = <<>> /\ obtained' = NothingObtained
    /\ resolve_calls' = 0
    /\ closed' = FALSE /\ ledger_at_start' = {}
    /\ confirm' = NoAnswer /\ dropped' = FALSE
    /\ shutdown' \in {"none", "init_failed"}
    /\ pc' = "prompt"
    /\ UNCHANGED <<committed, cfgVars, drop_tables, callVars>>

\* A process starts and connects (SteamScraperApplication.__init__,
\* DatabaseManager.__init__): the new connection sees what is committed and
\* the tables exist.  A missing credential, a failing connect or a failing
\* schema creation ends the process (sys.exit(1) or the exception).
StartProcess ==
    /\ runs' = runs + 1
    /\ db' = committed
    /\ app_ids' = <<>> /\ i' = 1 /\ processed_id_set' = {} /\ total_apps' = 0
    /\ app_details' = NoDetails /\ parsed_data' = NoParsed
    /\ fetched' = {} /\ item_log' = <<>> /\ obtained' = NothingObtained
    /\ resolve_calls' = 0
    /\ closed' = FALSE /\ ledger_at_start' = {}
    /\ confirm' = NoAnswer /\ dropped' = FALSE
    /\ \/ shutdown' = "none" /\ pc' = "prompt"
       \/ shutdown' = "init_failed" /\ pc' = "exited"
    /\ UNCHANGED <<committed, cfgVars, drop_tables, callVars>>

\* __main__: the scraper is started.
Main ==
    /\ pc = "idle"
    /\ StartProcess

\* __main__ again, with the same command line and configuration files, after
\* an earlier process has ended or has been killed at any point; what that
\* one left uncommitted is gone.
Restart ==
    /\ pc # "idle"
    /\ runs < MaxRuns
    /\ StartProcess

\* list.remove(x): drops the first occurrence.
RECURSIVE RemoveFirst(_, _)
RemoveFirst(q, x) ==
    IF q = <<>> THEN <<>>
    ELSE IF Head(q) = x THEN Tail(q) ELSE <<Head(q)>> \o RemoveFirst(Tail(q), x)

\* Mutant: the list is not filtered.
RemoveNothing(temp_id, ids, processed) == temp_id

\* run() lines 401-405: for each listed id that is processed, one removal.
RECURSIVE RemoveProcessed(_, _, _)
RemoveProcessed(temp_id, ids, processed) ==
    IF ids = <<>> THEN temp_id
    ELSE RemoveProcessed(IF int(Head(ids)) \in processed
                         THEN RemoveFirst(temp_id, Head(ids)) ELSE temp_id,
                         Tail(ids), processed)

\* random.shuffle: any order of the same elements.
Shuffles(q) == {[k \in 1..Len(q) |-> q[p[k]]] : p \in Permutations(1..Len(q))}

\* What the user may type at the prompt.
Answers == {"yes", "YES", "Yes", "yes ", "no"}

\* Mutant: the answer is compared as typed.
as_typed(s) == s

\* str.lower on the answers.
lower(s) == CASE s \in {"yes", "YES", "Yes"} -> "yes"
              [] s \in {"yes "} -> "yes "
              [] OTHER -> s

\* _drop_all_tables: every table is dropped and the drop is committed.
drop_all_tables(d) == EmptyDb

\* __main__ lines 610-615: with --drop-tables the prompt, and the drop when
\* the answer in lower case is 'yes'; then scraper.run() is called.
DropPrompt ==
    /\ pc = "prompt"
    /\ IF drop_tables
       THEN \E answer \in Answers :
               /\ confirm' = answer
               /\ IF lower(answer) = "yes"
                  THEN /\ db' = drop_all_tables(db)
                       /\ committed' = drop_all_tables(db)
                       /\ dropped' = TRUE
                  ELSE UNCHANGED <<db, committed, dropped>>
       ELSE UNCHANGED <<db, committed, confirm, dropped>>
    /\ pc' = "run"
    /\ UNCHANGED <<cfgVars, drop_tables, runVars, itemVars, fetched, item_log, obtained,
                   resolve_calls, closed, shutdown, ledger_at_start, runs, callVars>>

\* The request of get_all_app_ids, as an element of fetched.
AppListRequest == [kind |-> "applist", appid |-> NoId]

\* Mutant: the cache file is never read.
get_all_app_ids_uncached(cache) == Universes

\* get_all_app_ids when it returns: the cached list, or a list from the
\* response of the request.
get_all_app_ids(cache) == IF cache.exists THEN {cache.ids} ELSE Universes

\* run() up to the loop: the app list (cache or request), the filter, the shuffle.
StartRun ==
    /\ pc = "run"
    /\ fetched' = IF cache_file.exists THEN fetched ELSE fetched \cup {AppListRequest}
    /\ \/ \* the request failed: _do_requests gave {}, ['applist'] raises KeyError
          /\ ~ cache_file.exists
          /\ pc' = "crashed"
          /\ UNCHANGED <<cache_file, runVars, ledger_at_start>>
       \/ \E ids \in get_all_app_ids(cache_file) :
            /\ cache_file' = [exists |-> TRUE, ids |-> ids]
            /\ IF ids = <<>>
               THEN /\ pc' = "exited"
                    /\ UNCHANGED <<runVars, ledger_at_start>>
               ELSE IF dropped
               THEN \* line 399: the query on the dropped table raises
                    /\ pc' = "crashed"
                    /\ UNCHANGED <<runVars, ledger_at_start>>
               ELSE LET processed == get_all_processed_app_ids(db)
                        remaining == RemoveProcessed(ids, ids, processed)
                    IN /\ processed_id_set' = processed
                       /\ ledger_at_start' = get_all_processed_app_ids(committed)
                       /\ total_apps' = Len(remaining)
                       /\ app_ids' \in Shuffles(remaining)
                       /\ i' = 1
                       /\ pc' = "loop"
    /\ UNCHANGED <<db, committed, pre_filter, use_steamspy, itemVars, item_log,
                   obtained, resolve_calls, closed, shutdown, runs, mainVars, callVars>>

\* The for loop is exhausted: the try block ends normally.
LoopEnd ==
    /\ pc = "loop"
    /\ i > Len(app_ids)
    /\ pc' = "finally"
    /\ UNCHANGED <<db, committed, cfgVars, runVars, itemVars, fetched, item_log, obtained, histVars>>

\* Mutant: only the ids read at the start of run() are skipped.
LedgerCheckAtStartOnly ==
    /\ pc = "loop"
    /\ i <= Len(app_ids)
    /\ IF pre_filter /\ appid \in processed_id_set
       THEN Continue /\ item_log' = <<>>
       ELSE /\ item_log' = << [event |-> "check", appid |-> appid] >>
            /\ IF appid \in processed_id_set
               THEN Continue
               ELSE pc' = "detail" /\ i' = i
    /\ UNCHANGED <<db, committed, cfgVars, app_ids, processed_id_set, total_apps,
                   itemVars, fetched, obtained, histVars>>

\* Lines 413-423: the next item; the pre-filter and the ledger check.
LedgerCheck ==
    /\ pc = "loop"
    /\ i <= Len(app_ids)
    /\ IF pre_filter /\ appid \in processed_id_set
       THEN Continue /\ item_log' = <<>>
       ELSE /\ item_log' = << [event |-> "check", appid |-> appid] >>
            /\ IF is_processed(db, appid)
               THEN Continue
               ELSE pc' = "detail" /\ i' = i
    /\ UNCHANGED <<db, committed, cfgVars, app_ids, processed_id_set, total_apps,
                   itemVars, fetched, obtained, histVars>>

\* Lines 425-427: the detail request, then half the pacing interval.
FetchDetail ==
    /\ pc = "detail"
    /\ app_details' \in get_app_details(appid_str)
    /\ Fetch("detail")
    /\ Log(<< [event |-> "detail", appid |-> appid],
              [event |-> "sleep_half", appid |-> appid] >>)
    /\ pc' = "classify"
    /\ UNCHANGED <<db, committed, cfgVars, runVars, parsed_data, obtained, histVars>>

\* Mutant: an absent payload leaves no status.
MarkUnavailableUnwritten ==
    /\ pc = "classify"
    /\ ~ app_details.present
    /\ Log(<< [event |-> "mark", appid |-> appid] >>)
    /\ pc' = "commit_unavailable"
    /\ UNCHANGED <<db, committed, cfgVars, runVars, itemVars, fetched, obtained, histVars>>

\* Lines 429-430.
MarkUnavailable ==
    /\ pc = "classify"
    /\ ~ app_details.present
    /\ db' = mark_as_processed(db, appid, "unavailable")
    /\ Log(<< [event |-> "mark", appid |-> appid] >>)
    /\ pc' = "commit_unavailable"
    /\ UNCHANGED <<committed, cfgVars, runVars, itemVars, fetched, obtained, histVars>>

\* Lines 431-432.
CommitUnavailable ==
    /\ pc = "commit_unavailable"
    /\ commit
    /\ Continue
    /\ UNCHANGED <<db, cfgVars, app_ids, processed_id_set, total_apps, itemVars,
                   fetched, item_log, obtained, histVars>>

\* f"skipped type: {app_type}"
SkippedLabel(app_type) == "skipped type: " \o app_type

\* Lines 434-437: an unsupported type is marked and the loop continues.
MarkSkipped ==
    /\ pc = "classify"
    /\ app_details.present
    /\ app_details.type \notin SupportedTypes
    /\ db' = mark_as_processed(db, appid, SkippedLabel(app_details.type))
    /\ Log(<< [event |-> "kind", appid |-> appid], [event |-> "mark", appid |-> appid] >>)
    /\ Continue
    /\ UNCHANGED <<committed, cfgVars, app_ids, processed_id_set, total_apps, itemVars,
                   fetched, obtained, histVars>>

\* Lines 434-441: a supported type; the SteamSpy request (games only, when
\* configured) and _parse_app_data.
Enrich ==
    /\ pc = "classify"
    /\ app_details.present
    /\ app_details.type \in SupportedTypes
    /\ IF use_steamspy /\ app_details.type = "game"
       THEN \E spy_details \in get_steamspy_details(appid_str) :
               /\ parsed_data' = parse_app_data(app_details, spy_details)
               /\ Obtain("parsed", parse_app_data(app_details, spy_details))
               /\ Fetch("steamspy")
               /\ Log(<< [event |-> "kind", appid |-> appid],
                         [event |-> "steamspy", appid |-> appid] >>)
       ELSE /\ parsed_data' = parse_app_data(app_details, NoSpy)
            /\ Obtain("parsed", parse_app_data(app_details, NoSpy))
            /\ Log(<< [event |-> "kind", appid |-> appid] >>)
            /\ UNCHANGED fetched
    /\ pc' = "persist"
    /\ UNCHANGED <<db, committed, cfgVars, runVars, app_details, histVars>>

\* Line 443: add_app_and_relations, to its end or until one statement raises
\* (k statements done before it).
AddAppAndRelations ==
    /\ pc = "persist"
    /\ \/ /\ db' = add_app_and_relations(db, parsed_data)
          /\ pc' = "commit_app"
          /\ UNCHANGED shutdown
       \/ \E k \in 0..(Len(StatementsOf(parsed_data)) - 1) :
            /\ db' = add_app_and_relations_failing(db, parsed_data, k)
            /\ pc' = "finally"
            /\ shutdown' = "error"
    /\ UNCHANGED <<committed, cfgVars, runVars, itemVars, fetched, item_log,
                   obtained, resolve_calls, closed, ledger_at_start, runs, mainVars, callVars>>

\* Mutant: the item is marked right after its row is committed.
CommitAppThenMark ==
    /\ pc = "commit_app"
    /\ commit
    /\ pc' = "mark_success"
    /\ UNCHANGED <<db, cfgVars, runVars, itemVars, fetched, item_log, obtained, histVars>>

\* Line 445.
CommitApp ==
    /\ pc = "commit_app"
    /\ commit
    /\ pc' = "pending"
    /\ UNCHANGED <<db, cfgVars, runVars, itemVars, fetched, item_log, obtained, histVars>>

\* Mutant: no deferred link is recorded.
AddPendingDlcLinkSkipped ==
    /\ pc = "pending"
    /\ db' = db
    /\ pc' = "achievements"
    /\ UNCHANGED <<committed, cfgVars, runVars, itemVars, fetched, item_log, obtained, histVars>>

\* Lines 446-447.
AddPendingDlcLink ==
    /\ pc = "pending"
    /\ db' = IF parsed_data.base_game_id # NoId
             THEN add_pending_dlc_link(db, appid, parsed_data.base_game_id)
             ELSE db
    /\ pc' = "achievements"
    /\ UNCHANGED <<committed, cfgVars, runVars, itemVars, fetched, item_log, obtained, histVars>>

\* Mutant: the achievements of every game are requested.
AddAchievementsAnyCount ==
    /\ pc = "achievements"
    /\ IF app_details.type = "game"
       THEN \E achievements \in get_achievements(appid_str) :
               /\ db' = add_achievements(db, achievements)
               /\ Obtain("achievements", achievements)
               /\ Fetch("achievements")
               /\ Log(<< [event |-> "achievements", appid |-> appid] >>)
               /\ pc' = "commit_achievements"
       ELSE /\ pc' = "reviews"
            /\ UNCHANGED <<db, fetched, item_log, obtained>>
    /\ UNCHANGED <<committed, cfgVars, runVars, itemVars, histVars>>

\* Lines 450-452: achievements, for a game that reports some.
AddAchievements ==
    /\ pc = "achievements"
    /\ IF app_details.type = "game" /\ parsed_data.main_dict.achievements_count > 0
       THEN \E achievements \in get_achievements(appid_str) :
               /\ db' = add_achievements(db, achievements)
               /\ Obtain("achievements", achievements)
               /\ Fetch("achievements")
               /\ Log(<< [event |-> "achievements", appid |-> appid] >>)
               /\ pc' = "commit_achievements"
       ELSE /\ pc' = "reviews"
            /\ UNCHANGED <<db, fetched, item_log, obtained>>
    /\ UNCHANGED <<committed, cfgVars, runVars, itemVars, histVars>>

\* Line 453.
CommitAchievements ==
    /\ pc = "commit_achievements"
    /\ commit
    /\ pc' = "reviews"
    /\ UNCHANGED <<db, cfgVars, runVars, itemVars, fetched, item_log, obtained, histVars>>

\* Line 454: the review request and add_reviews, to its end or until its
\* second statement raises (a failure before any write is Raise).
AddReviews ==
    /\ pc = "reviews"
    /\ Fetch("reviews")
    /\ Log(<< [event |-> "reviews", appid |-> appid] >>)
    /\ \E reviews \in get_reviews(appid_str) :
         /\ Obtain("reviews", reviews)
         /\ \/ /\ db' = add_reviews(db, reviews, appid)
               /\ pc' = "mark_success"
               /\ UNCHANGED shutdown
            \/ /\ reviews # <<>>
               /\ db' = add_reviews_failing(db, reviews, appid)
               /\ pc' = "finally"
               /\ shutdown' = "error"
    /\ UNCHANGED <<committed, cfgVars, runVars, itemVars, resolve_calls, closed,
                   ledger_at_start, runs, mainVars, callVars>>

\* Line 456.
MarkSuccess ==
    /\ pc = "mark_success"
    /\ db' = mark_as_processed(db, appid, "success")
    /\ Log(<< [event |-> "mark", appid |-> appid] >>)
    /\ pc' = "commit_success"
    /\ UNCHANGED <<committed, cfgVars, runVars, itemVars, fetched, obtained, histVars>>

\* Lines 457-459: the commit, then the full pacing interval.
CommitSuccess ==
    /\ pc = "commit_success"
    /\ commit
    /\ Log(<< [event |-> "sleep_full", appid |-> appid] >>)
    /\ Continue
    /\ UNCHANGED <<db, cfgVars, app_ids, processed_id_set, total_apps, itemVars,
                   fetched, obtained, histVars>>

\* The positions inside the try block of run().
TryPcs == {"loop", "detail", "classify", "commit_unavailable", "persist", "commit_app",
           "pending", "achievements", "commit_achievements", "reviews", "mark_success",
           "commit_success"}

\* Mutant: the interrupt is caught inside the loop body, which goes on.
InterruptSwallowed ==
    /\ pc \in TryPcs
    /\ shutdown' = "interrupt"
    /\ UNCHANGED <<db, committed, pc, cfgVars, runVars, itemVars, fetched, item_log,
                   obtained, resolve_calls, closed, ledger_at_start, runs, mainVars, callVars>>

\* Lines 460-462: KeyboardInterrupt or SystemExit anywhere in the try block.
Interrupt ==
    /\ pc \in TryPcs
    /\ shutdown' = "interrupt"
    /\ pc' = "finally"
    /\ UNCHANGED <<db, committed, cfgVars, runVars, itemVars, fetched, item_log,
                   obtained, resolve_calls, closed, ledger_at_start, runs, mainVars, callVars>>

\* Lines 463-465: the next call of the item raises (a query, a request that
\* raises, the parser, a commit) before it changes anything; the handler is
\* outside the for loop.
Raise ==
    /\ pc \in TryPcs \ {"persist"}
    /\ pc = "loop" => i <= Len(app_ids)
    /\ shutdown' = "error"
    /\ pc' = "finally"
    /\ UNCHANGED <<db, committed, cfgVars, runVars, itemVars, fetched, item_log,
                   obtained, resolve_calls, closed, ledger_at_start, runs, mainVars, callVars>>

\* Mutant: the deferred rows are not cleared.
resolve_without_clear(d, pick, f) ==
    [db |-> IF f = 0 THEN d ELSE resolve_dlc_links_sql(d, pick),
     committed |-> f = 3]

\* resolve_pending_dlc_links when its statement number f + 1 of 3 raises
\* (f = 3: none does): the UPDATE, the DELETE, the commit.  The except clause
\* swallows the error and leaves the transaction open.
resolve_pending_dlc_links(d, pick, f) ==
    LET d1 == resolve_dlc_links_sql(d, pick)
        d2 == clear_resolved_dlc_links_sql(d1)
    IN [db |-> IF f = 0 THEN d ELSE IF f = 1 THEN d1 ELSE d2,
        committed |-> f = 3]

\* Line 468.
FinallyResolve ==
    /\ pc = "finally"
    /\ \E pick \in ResolvePicks(db), f \in 0..3 :
         LET r == resolve_pending_dlc_links(db, pick, f)
         IN /\ db' = r.db
            /\ committed' = IF r.committed THEN r.db ELSE committed
    /\ resolve_calls' = resolve_calls + 1
    /\ pc' = "progress"
    /\ UNCHANGED <<cfgVars, runVars, itemVars, fetched, item_log, obtained, closed,
                   shutdown, ledger_at_start, runs, mainVars, callVars>>

\* show_progress_bar divides by float(total).
show_progress_bar_raises(count, total) == total = 0

\* Lines 469-471: the final progress bar; ZeroDivisionError leaves run().
FinallyProgress ==
    /\ pc = "progress"
    /\ pc' = IF show_progress_bar_raises(total_apps, total_apps) THEN "crashed" ELSE "close"
    /\ UNCHANGED <<db, committed, cfgVars, runVars, itemVars, fetched, item_log, obtained, histVars>>

\* Line 472: DatabaseManager.close commits and closes.
Close ==
    /\ pc = "close"
    /\ commit
    /\ closed' = TRUE
    /\ pc' = "done"
    /\ UNCHANGED <<db, cfgVars, runVars, itemVars, fetched, item_log, obtained,
                   resolve_calls, shutdown, ledger_at_start, runs, mainVars, callVars>>

\* The steps of run() that the two specifications share.
RunSteps ==
    \/ DropPrompt
    \/ StartRun
    \/ LoopEnd
    \/ LedgerCheck
    \/ FetchDetail
    \/ MarkUnavailable
    \/ CommitUnavailable
    \/ MarkSkipped
    \/ Enrich
    \/ CommitApp
    \/ AddPendingDlcLink
    \/ AddAchievements
    \/ CommitAchievements
    \/ MarkSuccess
    \/ CommitSuccess
    \/ Interrupt
    \/ Raise
    \/ FinallyProgress
    \/ Close

Next ==
    \/ Main
    \/ RunSteps
    \/ AddAppAndRelations
    \/ AddReviews
    \/ FinallyResolve

\* One run of the scraper on an empty store.
Spec == Init /\ [][Next]_vars

\* Consecutive runs (up to MaxRuns processes, each resuming from what the
\* earlier ones committed), explored without SteamSpy and with statements
\* that fail only as a whole: a failing add_app_and_relations, add_reviews
\* or resolve_pending_dlc_links leaves no part of its writes behind.
ResumeInit == Init /\ ~ use_steamspy

AddAppAndRelationsWhole == AddAppAndRelations /\ (pc' = "finally" => db' = db)
AddReviewsWhole == AddReviews /\ (pc' = "finally" => db' = db)
FinallyResolveWhole == FinallyResolve /\ committed' = db'

ResumeNext ==
    \/ Main
    \/ Restart
    \/ RunSteps
    \/ AddAppAndRelationsWhole
    \/ AddReviewsWhole
    \/ FinallyResolveWhole

ResumeSpec == ResumeInit /\ [][ResumeNext]_vars

(***************************************************************************)
(* One process, started with or without --drop-tables.                     *)
(***************************************************************************)
MainInit ==
    /\ Fresh
    /\ NoCall
    /\ pc = "idle"
    /\ ~ use_steamspy

MainNext ==
    \/ Main
    \/ RunSteps
    \/ AddAppAndRelationsWhole
    \/ AddReviewsWhole
    \/ FinallyResolveWhole

MainSpec == MainInit /\ [][MainNext]_vars

(***************************************************************************)
(* The write operations of DatabaseManager called in any order on an open  *)
(* store, as run() and any other caller of the class may call them.        *)
(***************************************************************************)
StoreInit ==
    /\ Fresh
    /\ NoCall
    /\ pc = "store"
    /\ ~ drop_tables
    /\ ~ pre_filter
    /\ ~ use_steamspy

storeOnly == <<cache_file, pc, pre_filter, use_steamspy, app_ids, i, processed_id_set,
               total_apps, app_details, parsed_data, fetched, item_log, obtained,
               closed, shutdown, ledger_at_start, runs, mainVars, callVars>>

\* add_app_and_relations for the parsed payload of a game or a DLC.
StoreUpsert ==
    /\ pc = "store"
    /\ \E a \in AppIds : \E details \in DetailPayloads(a) :
          /\ details.type \in SupportedTypes
          /\ db' = add_app_and_relations(db, parse_app_data(details, NoSpy))
    /\ UNCHANGED <<committed, resolve_calls, storeOnly>>

\* add_pending_dlc_link for any pair of ids.
StoreAddPending ==
    /\ pc = "store"
    /\ \E a \in AppIds, p \in AppIds : db' = add_pending_dlc_link(db, a, p)
    /\ UNCHANGED <<committed, resolve_calls, storeOnly>>

\* resolve_pending_dlc_links, none of its statements raising.
StoreResolve ==
    /\ pc = "store"
    /\ resolve_calls < MaxResolves
    /\ \E pick \in ResolvePicks(db) :
          LET r == resolve_pending_dlc_links(db, pick, 3)
          IN db' = r.db /\ committed' = r.db
    /\ resolve_calls' = resolve_calls + 1
    /\ UNCHANGED storeOnly

StoreNext ==
    \/ StoreUpsert
    \/ StoreAddPending
    \/ StoreResolve

StoreSpec == StoreInit /\ [][StoreNext]_vars

(***************************************************************************)
(* _get_or_create_id called with any names on two lookup tables of an open *)
(* store; item_log holds the calls and what they returned.                 *)
(***************************************************************************)
LookupTables == {"developers", "tags"}
LookupNames == {"Valve", "Indie", "id Software"}

LookupInit ==
    /\ Fresh
    /\ NoCall
    /\ pc = "lookup"
    /\ ~ drop_tables
    /\ ~ pre_filter
    /\ ~ use_steamspy

GetOrCreateId ==
    /\ pc = "lookup"
    /\ Len(item_log) < MaxLookupCalls
    /\ \E table \in LookupTables, name \in LookupNames :
          LET r == get_or_create_id(db.lookup, table, name)
          IN /\ db' = [db EXCEPT !.lookup = r.lookup]
             /\ item_log' = Append(item_log, [event |-> "lookup", table |-> table,
                                               name |-> name, id |-> r.id])
    /\ UNCHANGED <<committed, pc, cfgVars, runVars, itemVars, fetched, obtained, histVars>>

LookupNext == GetOrCreateId

LookupSpec == LookupInit /\ [][LookupNext]_vars

(***************************************************************************)
(* The static methods sanitize_text and price_to_float.  A Python str is   *)
(* the list of its characters.                                             *)
(***************************************************************************)
\* str.replace(old, new): every occurrence, left to right, not overlapping.
RECURSIVE replace(_, _, _)
replace(t, old, new) ==
    IF Len(t) < Len(old) THEN t
    ELSE IF SubSeq(t, 1, Len(old)) = old
         THEN new \o replace(SubSeq(t, Len(old) + 1, Len(t)), old, new)
         ELSE <<Head(t)>> \o replace(Tail(t), old, new)

\* The position of the first c in t.
FirstIndex(t, c) == CHOOSE k \in 1..Len(t) : t[k] = c /\ \A j \in 1..(k - 1) : t[j] # c

\* re.sub(r'<[^>]*>', ' ', text): from the left, a '<' with a '>' after it is
\* replaced, up to the first such '>', by one space.
RECURSIVE sub_tags(_)
sub_tags(t) ==
    IF t = <<>> THEN <<>>
    ELSE IF Head(t) = "<" /\ ">" \in Range(Tail(t))
         THEN <<" ">> \o sub_tags(SubSeq(t, FirstIndex(t, ">") + 1, Len(t)))
         ELSE <<Head(t)>> \o sub_tags(Tail(t))

\* The characters str.strip() removes.
Whitespace == {" ", "\n", "\r", "\t"}

RECURSIVE lstrip(_)
lstrip(t) == IF t # <<>> /\ Head(t) \in Whitespace THEN lstrip(Tail(t)) ELSE t

RECURSIVE rstrip(_)
rstrip(t) ==
    IF t # <<>> /\ t[Len(t)] \in Whitespace THEN rstrip(SubSeq(t, 1, Len(t) - 1)) ELSE t

strip(t) == rstrip(lstrip(t))

\* sanitize_text, lines 564-567.
sanitize_text(t) ==
    IF t = <<>> THEN <<>>
    ELSE LET spaced == replace(replace(replace(t, <<"\n">>, <<" ">>), <<"\r">>, <<" ">>),
                               <<"\t">>, <<" ">>)
             untagged == sub_tags(spaced)
             unquoted == replace(untagged, <<"&", "q", "u", "o", "t", ";">>, <<"\"">>)
             unescaped == replace(unquoted, <<"&", "a", "m", "p", ";">>, <<"&">>)
         IN strip(unescaped)

MaxText == 3        \* longest enumerated argument of the static methods

\* "<b>Hello</b>\nWorld &amp; Co"
HelloWorld ==
    <<"<", "b", ">", "H", "e", "l", "l", "o", "<", "/", "b", ">", "\n",
      "W", "o", "r", "l", "d", " ", "&", "a", "m", "p", ";", " ", "C", "o">>

\* The arguments explored: every text of up to MaxText characters of a small
\* alphabet, a text with an escaped quote, and the text above.
TextChars == {"<", ">", "a", "\n", " "}
Texts ==
    SeqsUpTo(TextChars, MaxText)
    \cup {HelloWorld, <<"a", "&", "q", "u", "o", "t", ";", "\t", "\r", "a">>}

TextInit ==
    /\ Fresh
    /\ pc = "text"
    /\ ~ drop_tables /\ ~ pre_filter /\ ~ use_steamspy
    /\ text \in Texts
    /\ price_text = <<>>
    /\ returned = NotReturned

\* One call of sanitize_text.
SanitizeText ==
    /\ pc = "text"
    /\ returned' = sanitize_text(text)
    /\ pc' = "sanitized"
    /\ UNCHANGED <<db, committed, cfgVars, runVars, itemVars, fetched, item_log, obtained,
                   resolve_calls, closed, shutdown, ledger_at_start, runs, mainVars,
                   text, price_text>>

TextNext == SanitizeText

TextSpec == TextInit /\ [][TextNext]_vars

\* A Python float that is a decimal fraction: mantissa / 10^scale, without
\* trailing zeros in the fraction.
RECURSIVE Float(_, _)
Float(mantissa, scale) ==
    IF scale > 0 /\ mantissa % 10 = 0 THEN Float(mantissa \div 10, scale - 1)
    ELSE [mantissa |-> mantissa, scale |-> scale]

Digits == {"0", "1", "2", "3", "4", "5", "6", "7", "8", "9"}
DigitValue(c) == CHOOSE n \in 0..9 : ToString(n) = c

\* [0-9]* at the start of t: the longest run of digits.
RECURSIVE DigitRun(_)
DigitRun(t) ==
    IF t # <<>> /\ Head(t) \in Digits THEN <<Head(t)>> \o DigitRun(Tail(t)) ELSE <<>>

\* The number a run of digits writes.
RECURSIVE Number(_)
Number(digits) ==
    IF digits = <<>> THEN 0
    ELSE 10 * Number(SubSeq(digits, 1, Len(digits) - 1)) + DigitValue(digits[Len(digits)])

\* float(match.group(1)) for the first match of ([0-9]+\.?[0-9]*) in t, which
\* holds a digit: the digits from the first one on, a dot if one follows, and
\* the digits after the dot.
float_of_first_match(t) ==
    LET start == CHOOSE k \in 1..Len(t) : t[k] \in Digits /\ \A j \in 1..(k - 1) : t[j] \notin Digits
        whole == DigitRun(SubSeq(t, start, Len(t)))
        rest == SubSeq(t, start + Len(whole), Len(t))
        fraction == IF rest # <<>> /\ Head(rest) = "." THEN DigitRun(Tail(rest)) ELSE <<>>
    IN Float(Number(whole \o fraction), Len(fraction))

\* A price_text that is no str (None): .replace raises AttributeError.
None == <<"None">>

\* price_to_float, lines 597-602.
price_to_float(t) ==
    IF t = None THEN Float(0, 0)
    ELSE LET dotted == replace(t, <<",">>, <<".">>)
         IN IF \E k \in 1..Len(dotted) : dotted[k] \in Digits
            THEN float_of_first_match(dotted)
            ELSE Float(0, 0)

\* The arguments explored: every text of up to MaxText characters of a small
\* alphabet, None, and the prices "$19.99", "19,99€", "1,299.99", "1.299,99".
PriceChars == {"1", "9", ",", ".", "$"}
PriceTexts ==
    SeqsUpTo(PriceChars, MaxText)
    \cup {None,
          <<"$", "1", "9", ".", "9", "9">>,
          <<"1", "9", ",", "9", "9", "€">>,
          <<"1", ",", "2", "9", "9", ".", "9", "9">>,
          <<"1", ".", "2", "9", "9", ",", "9", "9">>}

PriceInit ==
    /\ Fresh
    /\ pc = "price"
    /\ ~ drop_tables /\ ~ pre_filter /\ ~ use_steamspy
    /\ text = <<>>
    /\ price_text \in PriceTexts
    /\ returned = NotReturned

\* One call of price_to_float.
PriceToFloat ==
    /\ pc = "price"
    /\ returned' = price_to_float(price_text)
    /\ pc' = "priced"
    /\ UNCHANGED <<db, committed, cfgVars, runVars, itemVars, fetched, item_log, obtained,
                   resolve_calls, closed, shutdown, ledger_at_start, runs, mainVars,
                   text, price_text>>

PriceNext == PriceToFloat

PriceSpec == PriceInit /\ [][PriceNext]_vars

(***************************************************************************)
(* Properties.                                                             *)
(***************************************************************************)
HasStatus(d, a) == \E r \in d.scrape_status : r.appid = a
HasSuccess(d, a) == [appid |-> a, status |-> "success"] \in d.scrape_status
HasEvent(name) == \E k \in 1..Len(item_log) : item_log[k].event = name
\* The app the events of item_log belong to.
LoggedApp == item_log[1].appid

\* C1: a run issues no request for an id that had a committed status when it
\* started: the remaining list holds no such id and no request names one.
C1_NoFetchOfProcessed ==
    /\ \A k \in 1..Len(app_ids) : int(app_ids[k]) \notin ledger_at_start
    /\ \A f \in fetched : f.appid \notin ledger_at_start

\* A second run whose app list names a processed id, and which fetched another.
C1_Witness ==
    /\ runs = 2
    /\ pc = "done"
    /\ fetched # {}
    /\ \E k \in 1..Len(cache_file.ids) : int(cache_file.ids[k]) \in ledger_at_start

\* C2: after an interrupt in the loop over a non-empty remaining list, and
\* as long as the process lives, no further item is started, the deferred
\* links are resolved exactly once, the store is closed after that, and no
\* committed status, app or link row is lost.
C2_InterruptedShutdown ==
    /\ [](shutdown = "interrupt" /\ total_apps > 0 =>
            /\ pc \in {"finally", "progress", "close", "done"}
            /\ resolve_calls = (IF pc = "finally" THEN 0 ELSE 1)
            /\ closed <=> (pc = "done"))
    /\ [][shutdown = "interrupt" /\ runs' = runs =>
            /\ i' = i /\ fetched' = fetched /\ item_log' = item_log
            /\ committed.scrape_status \subseteq committed'.scrape_status
            /\ AppRowIds(committed) \subseteq AppRowIds(committed')
            /\ committed.links \subseteq committed'.links]_vars

\* An interrupted run that is closed, with a status kept and an item not visited.
C2_Witness ==
    /\ shutdown = "interrupt"
    /\ pc = "done" /\ closed /\ resolve_calls = 1
    /\ committed.scrape_status # {}
    /\ i <= Len(app_ids)

\* C3: an error raised while processing one item does not end the loop: the
\* loop is left without an interrupt only when every id has been visited.
C3_ErrorDoesNotStopLoop ==
    (pc = "finally" /\ shutdown # "interrupt") => i > Len(app_ids)

\* The rows the processing of app a must have written, by what it obtained.
LinksComplete(d, a) ==
    LET rels == RelationsOf(obtained[a].parsed)
    IN \A k \in 1..Len(rels) :
          \E l \in d.lookup :
             /\ l.table = rels[k].table /\ l.name = rels[k].name
             /\ [table |-> rels[k].table, app_id |-> a, item_id |-> l.id,
                 attr |-> rels[k].attr] \in d.links

RowsComplete(d, a) ==
    /\ \E r \in d.apps : r.id = a /\ r.type = obtained[a].parsed.main_tuple.type
    /\ LinksComplete(d, a)
    /\ Range(obtained[a].achievements) \subseteq d.achievements
    /\ \A r \in Range(obtained[a].reviews) :
          /\ r.recommendationid \in d.reviews
          /\ [app_id |-> a, recommendationid |-> r.recommendationid] \in d.app_reviews

\* C4: 'success' is in the ledger only together with the item's row, links,
\* achievements and reviews, in the committed tables and in the transaction;
\* an item that failed before its status mark has no status.
C4_SuccessMeansComplete ==
    /\ \A a \in AppIds :
          /\ HasSuccess(committed, a) => RowsComplete(committed, a)
          /\ HasSuccess(db, a) => RowsComplete(db, a)
    /\ (shutdown = "error" /\ HasEvent("detail") /\ ~ HasEvent("mark"))
          => ~ HasStatus(db, LoggedApp) /\ ~ HasStatus(committed, LoggedApp)

\* A committed success of a game with links, an achievement and a review.
C4_Witness ==
    \E a \in AppIds :
       /\ HasSuccess(committed, a)
       /\ Len(RelationsOf(obtained[a].parsed)) >= 2
       /\ obtained[a].achievements # <<>>
       /\ obtained[a].reviews # <<>>

\* C5: the committed tables never hold the row of an item of this run
\* without all of that item's links.
C5_ItemAndLinksOneUnit ==
    \A a \in AppIds :
       (obtained[a].parsed # NoParsed /\ a \in AppRowIds(committed))
          => LinksComplete(committed, a)

\* The parent reference of the row of app a.
ParentOf(d, a) == (CHOOSE r \in d.apps : r.id = a).base_game_id

\* C6: a call of resolve_pending_dlc_links keeps a deferred row whose parent
\* has no row and leaves the addon's row alone if it has no resolvable row;
\* it removes a row whose addon and parent both have rows and sets the
\* addon's parent reference to the parent of such a row; it removes a row
\* only if the parent has a row and the addon's reference is set; and it
\* changes nothing when no row is resolvable.
C6_DeferredLinkRoundTrip ==
    [][resolve_calls' = resolve_calls + 1 =>
        /\ \A p \in db.pending_dlc :
              /\ p.base_game_id \notin AppRowIds(db) =>
                    /\ p \in db'.pending_dlc
                    /\ (\A q \in Resolvable(db) : q.dlc_id # p.dlc_id) =>
                          {r \in db'.apps : r.id = p.dlc_id} = {r \in db.apps : r.id = p.dlc_id}
              /\ (p.dlc_id \in AppRowIds(db) /\ p.base_game_id \in AppRowIds(db)) =>
                    /\ p \notin db'.pending_dlc
                    /\ \E q \in db.pending_dlc :
                          /\ q.dlc_id = p.dlc_id
                          /\ q.base_game_id \in AppRowIds(db)
                          /\ ParentOf(db', p.dlc_id) = q.base_game_id
              /\ p \notin db'.pending_dlc =>
                    /\ p.base_game_id \in AppRowIds(db')
                    /\ p.dlc_id \in AppRowIds(db')
                    /\ ParentOf(db', p.dlc_id) # NoId
        /\ db'.pending_dlc \subseteq db.pending_dlc
        /\ AppRowIds(db') = AppRowIds(db)
        /\ (\A p \in db.pending_dlc :
               p.dlc_id \notin AppRowIds(db) \/ p.base_game_id \notin AppRowIds(db))
              => db' = db]_vars

\* After two calls: an addon whose reference names another app's row, and
\* no deferred row left.
C6_Witness ==
    /\ pc = "store"
    /\ resolve_calls >= 2
    /\ db.pending_dlc = {}
    /\ \E r \in db.apps : r.base_game_id # NoId /\ r.base_game_id # r.id

\* The last event of item_log is new and is a status mark of app a.
Marks(a) ==
    /\ Len(item_log') > Len(item_log)
    /\ item_log'[Len(item_log')] = [event |-> "mark", appid |-> a]

\* C7: an id has at most one status row; a status is written only for an id
\* without one, a status once written is never changed, and a committed
\* status stays.
C7_StatusWrittenOnce ==
    /\ [](\A a \in AppIds :
            /\ Cardinality({r \in db.scrape_status : r.appid = a}) <= 1
            /\ Cardinality({r \in committed.scrape_status : r.appid = a}) <= 1)
    /\ [][\A a \in AppIds :
            /\ Marks(a) => ~ HasStatus(db, a)
            /\ \A r \in db.scrape_status, q \in db'.scrape_status :
                  (r.appid = a /\ q.appid = a) => q = r
            /\ {r \in committed.scrape_status : r.appid = a} \subseteq committed'.scrape_status]_vars

\* A second run that marks an id while the ledger holds another one's status.
C7_Witness ==
    /\ runs = 2
    /\ ledger_at_start # {}
    /\ HasEvent("mark")
    /\ LoggedApp \notin ledger_at_start
    /\ Cardinality(committed.scrape_status) = 2

\* C8: between two items every status written so far is committed.
C8_StatusCommittedBetweenItems ==
    pc = "loop" => db.scrape_status \subseteq committed.scrape_status

\* The order of an item's events.
EventOrder == <<"check", "detail", "kind", "steamspy", "achievements", "reviews", "mark">>
Rank(name) ==
    IF name \in Range(EventOrder)
    THEN CHOOSE k \in 1..Len(EventOrder) : EventOrder[k] = name
    ELSE 0

\* C9: the events of an item marked 'success' are those of one app, in the
\* order ledger check, detail, kind check, SteamSpy, achievements, reviews,
\* status mark; the check, the detail, the kind check, the reviews and the
\* mark are among them.
C9_ItemEventOrder ==
    (item_log # <<>> /\ HasEvent("mark") /\ HasSuccess(db, LoggedApp)) =>
        /\ \A k \in 1..Len(item_log) : item_log[k].appid = LoggedApp
        /\ \A j, k \in 1..Len(item_log) :
              (j < k /\ Rank(item_log[j].event) > 0 /\ Rank(item_log[k].event) > 0)
                 => Rank(item_log[j].event) < Rank(item_log[k].event)
        /\ \A name \in {"check", "detail", "kind", "reviews", "mark"} : HasEvent(name)

\* A game marked 'success' after all seven events.
C9_Witness ==
    /\ item_log # <<>>
    /\ HasSuccess(db, LoggedApp)
    /\ \A name \in Range(EventOrder) : HasEvent(name)

\* C10: an item whose payload has a type other than 'game' and 'dlc' causes
\* no SteamSpy, achievement or review request, no app row, no link row and no
\* deferred link, and once marked has exactly one status row.
C10_UnsupportedKind ==
    (item_log # <<>> /\ HasEvent("detail") /\ app_details.present
        /\ app_details.type \notin {"game", "dlc"}) =>
        /\ \A f \in fetched : f.appid = LoggedApp => f.kind = "detail"
        /\ LoggedApp \notin AppRowIds(db)
        /\ \A l \in db.links : l.app_id # LoggedApp
        /\ \A p \in db.pending_dlc : p.dlc_id # LoggedApp
        /\ (HasEvent("mark") \/ pc = "loop") =>
              Cardinality({r \in db.scrape_status : r.appid = LoggedApp}) = 1

\* A video that has been marked while another app has a row.
C10_Witness ==
    /\ item_log # <<>> /\ HasEvent("detail") /\ HasEvent("mark")
    /\ app_details.present /\ app_details.type = "video"
    /\ HasStatus(committed, LoggedApp)
    /\ AppRowIds(db) # {}

\* C11: every label in the ledger is 'success', 'unavailable' or
\* 'skipped: <kind>' with the raw kind of the payload.
C11_LabelsAsSpecified ==
    \A r \in db.scrape_status :
       r.status \in {"success", "unavailable"} \cup {"skipped: " \o k : k \in AppTypes}

\* The step appends a detail request of app a to item_log.
FetchesDetail(a) ==
    /\ Len(item_log') > Len(item_log)
    /\ item_log'[Len(item_log) + 1] = [event |-> "detail", appid |-> a]

\* C12: an item whose detail request returned nothing causes no other
\* request and has no app row; when the loop moves on its 'unavailable'
\* status is committed; and no detail request is made for an id that has a
\* status, so the id is not fetched again in the run.
C12_UnavailableItem ==
    /\ []((item_log # <<>> /\ HasEvent("detail") /\ ~ app_details.present) =>
            /\ \A f \in fetched : f.appid = LoggedApp => f.kind = "detail"
            /\ LoggedApp \notin AppRowIds(db)
            /\ (HasEvent("mark") /\ pc = "loop") =>
                  [appid |-> LoggedApp, status |-> "unavailable"] \in committed.scrape_status)
    /\ [][\A a \in AppIds : FetchesDetail(a) => ~ HasStatus(db, a)]_vars

\* The list names an id twice; its first visit ended 'unavailable' and its
\* second visit stopped at the ledger check.
C12_Witness ==
    /\ Len(app_ids) = 2 /\ app_ids[1] = app_ids[2]
    /\ i = 3 /\ pc = "loop"
    /\ item_log = << [event |-> "check", appid |-> int(app_ids[2])] >>
    /\ [appid |-> int(app_ids[2]), status |-> "unavailable"] \in committed.scrape_status
    /\ {f \in fetched : f.appid = int(app_ids[2])}
          = {[kind |-> "detail", appid |-> int(app_ids[2])]}

\* C13: a call of the source client returns; in particular get_all_app_ids,
\* the one call of run() before the loop, does not end the process.
C13_SourceClientNeverRaises ==
    [][(pc = "run" /\ AppListRequest \in fetched') => pc' # "crashed"]_vars

\* How often s occurs in the list q.
Occurrences(q, s) == Cardinality({k \in 1..Len(q) : q[k] = s})

\* C14: the cache file, once there, never changes; the step of run() that
\* gets the app list (the process not being killed before it), with a
\* cache, makes no request and goes on with the
\* cached ids (each unprocessed one as often as the cache names it), and
\* without a cache writes one only together with a request that returned,
\* and none when the request failed.
C14_UniverseCache ==
    [][/\ cache_file.exists => cache_file' = cache_file
       /\ (pc = "run" /\ runs' = runs /\ cache_file.exists) =>
             /\ fetched' = fetched
             /\ pc' # "crashed"
             /\ (pc' = "exited") <=> (cache_file.ids = <<>>)
             /\ pc' = "loop" =>
                   \A s \in AppIdStrs :
                      IF \E r \in db.scrape_status : r.appid = int(s)
                      THEN Occurrences(app_ids', s) = 0
                      ELSE Occurrences(app_ids', s) = Occurrences(cache_file.ids, s)
       /\ (~ cache_file.exists /\ cache_file'.exists) =>
             pc = "run" /\ AppListRequest \in fetched' /\ pc' # "crashed"
       /\ (pc = "run" /\ pc' = "crashed") => ~ cache_file'.exists]_vars

\* A second process is in its loop with ids of the cache, without a request
\* for the list.
C14_Witness ==
    /\ runs = 2
    /\ cache_file.exists
    /\ pc = "loop" /\ app_ids # <<>>
    /\ AppListRequest \notin fetched

\* C15: of the calls of _get_or_create_id on one table, two with one name
\* returned one id and two with different names returned different ids, and
\* the table holds one row for each name the calls named and no other row.
C15_GetOrCreate ==
    /\ \A j, k \in 1..Len(item_log) :
          item_log[j].table = item_log[k].table =>
             ((item_log[j].name = item_log[k].name) <=> (item_log[j].id = item_log[k].id))
    /\ \A t \in LookupTables :
          LET rows == {r \in db.lookup : r.table = t}
              seen == {item_log[k].name : k \in {j \in 1..Len(item_log) : item_log[j].table = t}}
          IN /\ {r.name : r \in rows} = seen
             /\ Cardinality(rows) = Cardinality(seen)
             /\ \A k \in 1..Len(item_log) :
                   item_log[k].table = t =>
                      [table |-> t, name |-> item_log[k].name, id |-> item_log[k].id] \in rows

\* Four calls on one table: a name twice and two other names.
C15_Witness ==
    /\ pc = "lookup"
    /\ Len(item_log) = 4
    /\ \A k \in 1..4 : item_log[k].table = "developers"
    /\ item_log[1].name = item_log[3].name
    /\ Cardinality({item_log[k].name : k \in 1..4}) = 3

\* The parsed records of the payloads of a game or a DLC, with and without
\* SteamSpy details.
ParsedRecordsOf(a) ==
    {parse_app_data(details, spy) :
        details \in {x \in DetailPayloads(a) : x.type \in {"game", "dlc"}},
        spy \in {NoSpy} \cup get_steamspy_details(str(a))}
ParsedRecords == UNION {ParsedRecordsOf(a) : a \in AppIds}

\* C16: on any store, add_app_and_relations applied a second time with the
\* same record changes no table, and after it no two link rows have the
\* same table, item id and lookup id.
C16_IdempotentItemWrite ==
    \A record \in ParsedRecords :
       LET once == add_app_and_relations(db, record)
           twice == add_app_and_relations(once, record)
       IN /\ twice = once
          /\ \A l1, l2 \in once.links :
                (l1.table = l2.table /\ l1.app_id = l2.app_id /\ l1.item_id = l2.item_id)
                   => l1 = l2

\* A store that holds a game with its links, where writing the game's
\* record again changes nothing.
C16_Witness ==
    /\ pc = "store"
    /\ \E record \in ParsedRecords :
          /\ record.developers # <<>>
          /\ record.main_tuple.id \in AppRowIds(db)
          /\ \E l \in db.links : l.app_id = record.main_tuple.id
          /\ add_app_and_relations(db, record) = db

\* C17: a detail request is followed at once by the half interval, and the
\* loop goes from a marked item to the next one only after the full interval.
C17_Pacing ==
    [][/\ \A a \in AppIds :
             FetchesDetail(a) =>
                /\ Len(item_log') >= Len(item_log) + 2
                /\ item_log'[Len(item_log) + 2].event = "sleep_half"
       /\ (/\ pc' = "loop" /\ i' = i + 1
           /\ \E k \in 1..Len(item_log') : item_log'[k].event = "mark")
             => item_log'[Len(item_log')].event = "sleep_full"]_vars

\* C18: the tables have been dropped only if --drop-tables was given and
\* the answer was 'yes' in some letter case; after such an answer they have
\* been dropped, after any other answer they have not; and a process that
\* has not dropped them loses no committed status and no app row.
C18_DropNeedsConfirmation ==
    /\ [](/\ dropped => (drop_tables /\ confirm \in {"yes", "YES", "Yes"})
          /\ (drop_tables /\ confirm \in {"yes", "YES", "Yes"}) => dropped
          /\ (confirm # NoAnswer) => drop_tables)
    /\ [][~ dropped' =>
            /\ committed.scrape_status \subseteq committed'.scrape_status
            /\ AppRowIds(committed) \subseteq AppRowIds(committed')]_vars

\* The tables were dropped on the answer 'YES'.
C18_Witness ==
    /\ drop_tables
    /\ confirm = "YES"
    /\ dropped
    /\ pc = "run"

\* C19: a process started with --drop-tables gets no further than the
\* prompt: run() is not entered, nothing is requested and no status is
\* written.
C19_DropTablesThenExit ==
    drop_tables =>
       /\ pc \in {"idle", "prompt", "exited"}
       /\ fetched = {}
       /\ db.scrape_status = {}

\* C20: a process whose start failed has left __main__, has made no request,
\* has written nothing and has dropped nothing; the committed tables and the
\* cache file are as they were.
C20_InitFailureIsFatal ==
    /\ [](shutdown = "init_failed" =>
            /\ pc = "exited"
            /\ fetched = {}
            /\ item_log = <<>>
            /\ db = committed
            /\ ~ dropped)
    /\ [][shutdown' = "init_failed" =>
            committed' = committed /\ cache_file' = cache_file]_vars

\* The second start fails on a store that holds a status of the first one.
C20_Witness ==
    /\ runs = 2
    /\ shutdown = "init_failed"
    /\ pc = "exited"
    /\ committed.scrape_status # {}
    /\ cache_file.exists

\* C21: what sanitize_text returns holds no tag, no newline, tab or carriage
\* return, and no white space at either end; a text of letters and line
\* breaks comes back with single spaces between its words; and
\* "<b>Hello</b>\nWorld &amp; Co" comes back as "Hello World & Co".
C21_SanitizeText ==
    pc = "sanitized" =>
       /\ ~ \E j, k \in 1..Len(returned) : j < k /\ returned[j] = "<" /\ returned[k] = ">"
       /\ \A k \in 1..Len(returned) : returned[k] \notin {"\n", "\r", "\t"}
       /\ returned # <<>> =>
             returned[1] \notin Whitespace /\ returned[Len(returned)] \notin Whitespace
       /\ Range(text) \subseteq {"a", "\n"} =>
             \A k \in 1..(Len(returned) - 1) : ~ (returned[k] = " " /\ returned[k + 1] = " ")
       /\ text = HelloWorld =>
             returned = <<"H", "e", "l", "l", "o", " ", "W", "o", "r", "l", "d", " ",
                          "&", " ", "C", "o">>

\* C22: price_to_float returns 19.99 for "$19.99" and for "19,99€", 0.0 for
\* an empty, an absent and a digitless text, and the numeric value of the
\* price, 1299.99, for a price written with a thousands separator and a
\* decimal separator.
C22_PriceToFloat ==
    pc = "priced" =>
       /\ price_text = <<"$", "1", "9", ".", "9", "9">> => returned = Float(1999, 2)
       /\ price_text = <<"1", "9", ",", "9", "9", "€">> => returned = Float(1999, 2)
       /\ (price_text \in {<<>>, None} \/ Range(price_text) \cap Digits = {})
             => returned = Float(0, 0)
       /\ price_text \in {<<"1", ",", "2", "9", "9", ".", "9", "9">>,
                          <<"1", ".", "2", "9", "9", ",", "9", "9">>}
             => returned = Float(129999, 2)

\* C23: a step adds a row to the deferred links only for an item whose row
\* has the type 'dlc' and whose parent has no row in the store at that time.
C23_DeferredOnlyWhenParentMissing ==
    [][\A p \in db'.pending_dlc :
          p \notin db.pending_dlc =>
             /\ \E r \in db.apps : r.id = p.dlc_id /\ r.type = "dlc"
             /\ p.base_game_id \notin AppRowIds(db)]_vars

\* C24: a step issues an achievement request only for the current item, its
\* payload being of type 'game' or 'dlc' and reporting more than zero
\* achievements; it issues a review request only for the current item, its
\* payload being of type 'game' or 'dlc'; and every item of such a type that
\* has been marked had its reviews requested.
C24_SubFetches ==
    /\ [][\A f \in fetched' :
            f \notin fetched =>
               /\ f.kind = "achievements" =>
                     /\ app_details.present /\ app_details.steam_appid = f.appid
                     /\ app_details.type \in {"game", "dlc"}
                     /\ app_details.achievements_total > 0
               /\ f.kind = "reviews" =>
                     /\ app_details.present /\ app_details.steam_appid = f.appid
                     /\ app_details.type \in {"game", "dlc"}]_vars
    /\ []((item_log # <<>> /\ HasEvent("mark") /\ app_details.present
            /\ app_details.type \in {"game", "dlc"})
           => [kind |-> "reviews", appid |-> LoggedApp] \in fetched)

\* A game with achievements and a DLC, both committed as 'success': both had
\* their reviews requested, the game alone its achievements.
C24_Witness ==
    \E a, b \in AppIds :
       /\ HasSuccess(committed, a) /\ HasSuccess(committed, b)
       /\ obtained[a].parsed.main_tuple.type = "game"
       /\ obtained[b].parsed.main_tuple.type = "dlc"
       /\ [kind |-> "achievements", appid |-> a] \in fetched
       /\ [kind |-> "reviews", appid |-> a] \in fetched
       /\ [kind |-> "reviews", appid |-> b] \in fetched
       /\ [kind |-> "achievements", appid |-> b] \notin fetched

\* C25: a process that has left the loop of run() calls
\* resolve_pending_dlc_links once, and when it has ended the store is
\* closed, also when the remaining list was empty.
C25_CleanupOnEveryExit ==
    /\ pc \in {"progress", "close", "done"} => resolve_calls = 1
    /\ pc = "done" => closed
    /\ (pc = "crashed" /\ resolve_calls > 0) => resolve_calls = 1 /\ closed

\* In tables d, app a, whose payload named the parent p, has its parent
\* reference set or its deferred row, and the deferred row if p has no row.
LinkKept(d, a, p) ==
    /\ a \in AppRowIds(d)
    /\ ParentOf(d, a) # NoId \/ [dlc_id |-> a, base_game_id |-> p] \in d.pending_dlc
    /\ p \notin AppRowIds(d) => [dlc_id |-> a, base_game_id |-> p] \in d.pending_dlc
    /\ ParentOf(d, a) # NoId => ParentOf(d, a) \in AppRowIds(d)

\* C26: after the resolution pass of a run, every item the run marked
\* 'success' and whose payload named a parent has its parent reference set
\* or still has its deferred row, and has the row when the parent has no row;
\* so also in the committed tables once the store is closed.
C26_NoParentLinkLost ==
    \A a \in AppIds :
       LET p == obtained[a].parsed.base_game_id
       IN (resolve_calls = 1 /\ p # NoId) =>
             /\ HasSuccess(db, a) => LinkKept(db, a, p)
             /\ (pc = "done" /\ HasSuccess(committed, a)) => LinkKept(committed, a, p)

\* A closed run that processed the addon before its parent: the reference
\* names the parent and the deferred row is gone.
C26_Witness ==
    /\ pc = "done"
    /\ Len(app_ids) = 2
    /\ LET a == int(app_ids[1])
           p == int(app_ids[2])
       IN /\ HasSuccess(committed, a) /\ HasSuccess(committed, p)
          /\ obtained[a].parsed.base_game_id = p
          /\ ParentOf(committed, a) = p
          /\ committed.pending_dlc = {}

\* C27: in one run a detail request is issued at most once for an id, also
\* when the list names the id more than once: a step that issues one does so
\* for an id not requested before in the run and without a status, and the
\* visit of an id that has a status ends at the ledger check.
C27_OneDetailFetchPerId ==
    [][\A a \in AppIds :
          /\ FetchesDetail(a) =>
                /\ [kind |-> "detail", appid |-> a] \notin fetched
                /\ ~ HasStatus(db, a)
          /\ (pc = "loop" /\ runs' = runs /\ i <= Len(app_ids) /\ appid = a /\ HasStatus(db, a)) =>
                /\ fetched' = fetched
                /\ pc' \in {"loop", "finally"}]_vars

\* The list names an id twice; its first visit ended with the status of an
\* unsupported type and its second visit stopped at the ledger check.
C27_Witness ==
    /\ Len(app_ids) = 2 /\ app_ids[1] = app_ids[2]
    /\ i = 3 /\ pc = "loop"
    /\ item_log = << [event |-> "check", appid |-> int(app_ids[2])] >>
    /\ [appid |-> int(app_ids[2]), status |-> SkippedLabel("video")] \in db.scrape_status
    /\ {f \in fetched : f.appid = int(app_ids[2])}
          = {[kind |-> "detail", appid |-> int(app_ids[2])]}

\* C28: a run that has ended because the app list was empty had requested
\* the list from the remote source and has left no cache file.
C28_NoCacheOfEmptyList ==
    (pc = "exited" /\ shutdown = "none") =>
       /\ AppListRequest \in fetched
       /\ ~ cache_file.exists
====
